---- MODULE Spec2Model ----
(***************************************************************************)
(* Model of the REPRL fuzzing harness of lua-5.4.4/src/lua.c: the coverage *)
(* bitmap bridge (the __sanitizer_cov hooks), the handshake and transport,  *)
(* the execution cell and the persistent loop of do_Fuzzing.               *)
(***************************************************************************)
EXTENDS Integers, Sequences, FiniteSets, TLC

\* ------------------------------------------------------------------ bounds
\* Largest guard table of a module in the whole-program specification.
MaxGuards == 2
\* The guard tables of the coverage-only specification have up to
\* MAX_EDGES + CovExtra guards, so that the cap of the reset loop is reached.
CovExtra == 1
\* Number of instrumented modules (guard ranges) that may call the init hook.
NumModules == 2
\* The first MaxGarbage bits of the malloc'ed (uninitialised) region are
\* arbitrary; the rest of it is taken to be zero.
MaxGarbage == 2
\* Largest declared script length.
MaxLen == 2
\* The persistent loop is followed for this many iterations.
MaxIter == 2
\* A chunk returns up to this many values.
MaxRet == 1

\* ------------------------------------------------------- program constants
\* lua.c:50 has 0x100000. The model is scaled down to a region of the 4-byte
\* header and one byte of edges; MAX_EDGES = (SHM_SIZE - 4) * 8 is as in the
\* code, so every relation between a guard index and the region is kept.
SHM_SIZE == 5
HeaderSize == 4
BitsPerByte == 8
MAX_EDGES == (SHM_SIZE - HeaderSize) * BitsPerByte

\* size_t has 64 bits (lua.c:768 reads 8 bytes into script_size). The model
\* is scaled down to a size_t of 3 bits: arithmetic on sizes is modulo
\* SIZE_MAX + 1, as in the code.
SIZE_MAX == 7

\* a null pointer: of a guard range (modules are 1..NumModules), of a state
\* (iterations are 1..MaxIter); an unbound region and an unallocated buffer
NULL == 0
NoRegion == "none"
NoBuffer == <<>>
Modules == 1..NumModules

Min(a, b) == IF a < b THEN a ELSE b

VARIABLES
  pc,           \* position of the process
  env_SHM_ID,   \* getenv("SHM_ID") != NULL
  env_LUA_INIT, \* getenv("LUA_INIT_5_4") or getenv("LUA_INIT") != NULL
  guards,       \* guards[m]: the guard table of module m (uint32 each)
  edges_start,  \* __edges_start: NULL or the module whose table starts there
  edges_stop,   \* __edges_stop
  shmem,        \* __shmem: NoRegion (NULL), "heap" or "shm"
  num_edges,    \* __shmem->num_edges
  edges,        \* __shmem->edges[]: byte offset -> byte value
  overflowed,   \* a write past the end of the region has happened
  helo,         \* char helo[]: the 4 greeting bytes
  action,       \* unsigned action
  script_size,  \* size_t script_size
  script_src,   \* the payload buffer (NoBuffer before allocation)
  capacity,     \* the number of bytes malloc was asked for script_src
  ptr,          \* ptr - script_src
  remaining,    \* size_t remaining
  payload,      \* the bytes the supervisor still has to send on REPRL_DRFD
  L,            \* lua_State *L: NULL or the iteration that created it
  liveStates,   \* interpreter states created and not yet closed
  liveBufs,     \* payload buffers allocated and not yet freed
  stackTop,     \* lua_gettop(L)
  result,       \* int result
  status,       \* int status
  iter,         \* number of the current iteration (0 before the loop)
  trail,        \* the steps of the current iteration, in order
  io,           \* what happened on the transport descriptors
  out           \* what the iteration emitted on stdout/stderr

covVars == <<guards, edges_start, edges_stop, shmem, num_edges, edges, overflowed>>
envVars == <<env_SHM_ID, env_LUA_INIT>>
loopVars == <<helo, action, script_size, script_src, capacity, ptr, remaining, payload, L,
              liveStates, liveBufs, stackTop, result, status, iter, trail, io, out>>
vars == <<pc, envVars, covVars, loopVars>>

Terminated == pc \in {"returned", "exited", "crashed"}

\* ------------------------------------------------------- coverage bridge
EdgeBytes == SHM_SIZE - HeaderSize
EdgeOffsets == 0..(EdgeBytes - 1)

RECURSIVE Pow2(_)
Pow2(n) == IF n = 0 THEN 1 ELSE 2 * Pow2(n - 1)

\* bit b of byte v
BitOf(v, b) == (v \div Pow2(b)) % 2

\* v | (1 << b) on an unsigned char
OrBit(v, b) == IF BitOf(v, b) = 1 THEN v ELSE (v + Pow2(b)) % 256

\* the byte image of a set of bit numbers
RECURSIVE ByteOf(_, _)
ByteOf(S, b) ==
  IF b = BitsPerByte THEN 0
  ELSE (IF b \in S THEN Pow2(b) ELSE 0) + ByteOf(S, b + 1)

\* the loop of __sanitizer_cov_reset_edgeguards over one table, from
\* position i (1-based) with counter N: *x = ++N while x < stop && N < MAX_EDGES
\* mutant of ResetLoop: *x += ++N
RECURSIVE ResetLoop_accumulate(_, _, _)
ResetLoop_accumulate(g, i, N) ==
  IF i <= Len(g) /\ N < MAX_EDGES
  THEN ResetLoop_accumulate([g EXCEPT ![i] = @ + N + 1], i + 1, N + 1)
  ELSE g

\* mutant of ResetLoop: the loop runs to the end of the table, N < MAX_EDGES
\* is not tested
RECURSIVE ResetLoop_nocap(_, _, _)
ResetLoop_nocap(g, i, N) ==
  IF i <= Len(g)
  THEN ResetLoop_nocap([g EXCEPT ![i] = N + 1], i + 1, N + 1)
  ELSE g

RECURSIVE ResetLoop(_, _, _)
ResetLoop(g, i, N) ==
  IF i <= Len(g) /\ N < MAX_EDGES
  THEN ResetLoop([g EXCEPT ![i] = N + 1], i + 1, N + 1)
  ELSE g

\* __sanitizer_cov_reset_edgeguards on the whole guard state
sanitizer_cov_reset_edgeguards(gs, start, stop) ==
  IF start = NULL \/ stop = NULL
  THEN gs
  ELSE [gs EXCEPT ![start] = ResetLoop(gs[start], 1, 0)]

\* the region a fresh malloc(SHM_SIZE) returns: uninitialised bytes
GarbageSets == SUBSET (0..(Min(MaxGarbage, BitsPerByte * EdgeBytes) - 1))
GarbageEdges(S) ==
  [o \in EdgeOffsets |-> ByteOf({b - o * BitsPerByte : b \in {x \in S : x \div BitsPerByte = o}}, 0)]

\* mutant of EdgeCount: the distance in bytes instead of in guards
EdgeCount_bytes(m) == Len(guards[m]) * 4

\* stop - start for the table of module m (lua.c:117)
EdgeCount(m) == Len(guards[m])

\* mutant of sanitizer_cov_trace_pc_guard_init: the test for a range that is
\* already recorded is missing, a second range is bound in place of the first
sanitizer_cov_trace_pc_guard_init_rebind(m, shmOk, mallocOk, garbage) ==
  /\ ~Terminated
  /\ IF Len(guards[m]) = 0 \/ guards[m][1] # 0
     THEN UNCHANGED <<pc, covVars>>
     ELSE IF env_SHM_ID /\ ~shmOk
     THEN /\ pc' = "exited"
          /\ edges_start' = m
          /\ edges_stop' = m
          /\ UNCHANGED <<guards, shmem, num_edges, edges, overflowed>>
     ELSE IF ~env_SHM_ID /\ ~mallocOk
     THEN /\ pc' = "crashed"
          /\ edges_start' = m
          /\ edges_stop' = m
          /\ guards' = sanitizer_cov_reset_edgeguards(guards, m, m)
          /\ UNCHANGED <<shmem, num_edges, edges, overflowed>>
     ELSE /\ edges_start' = m
          /\ edges_stop' = m
          /\ shmem' = IF env_SHM_ID THEN "shm" ELSE "heap"
          /\ edges' = IF env_SHM_ID THEN edges ELSE GarbageEdges(garbage)
          /\ guards' = sanitizer_cov_reset_edgeguards(guards, m, m)
          /\ num_edges' = EdgeCount(m)
          /\ UNCHANGED <<pc, overflowed>>

\* __sanitizer_cov_trace_pc_guard_init(start, stop) for the table of module m.
\* shmOk: shm_open and mmap succeed; mallocOk: malloc returns a buffer;
\* garbage: the nonzero bits of the uninitialised heap buffer.
sanitizer_cov_trace_pc_guard_init(m, shmOk, mallocOk, garbage) ==
  /\ ~Terminated
  /\ IF Len(guards[m]) = 0 \/ guards[m][1] # 0
     THEN \* start == stop || *start: duplicate initialization, return
          UNCHANGED <<pc, covVars>>
     ELSE IF edges_start # NULL \/ edges_stop # NULL
     THEN \* "only supported for a single module": _exit(-1)
          /\ pc' = "exited"
          /\ UNCHANGED covVars
     ELSE IF env_SHM_ID /\ ~shmOk
     THEN \* shm_open or mmap failed: _exit(-1), the range is already recorded
          /\ pc' = "exited"
          /\ edges_start' = m
          /\ edges_stop' = m
          /\ UNCHANGED <<guards, shmem, num_edges, edges, overflowed>>
     ELSE IF ~env_SHM_ID /\ ~mallocOk
     THEN \* malloc returned NULL: the guards are reset, then the store to
          \* __shmem->num_edges dereferences NULL
          /\ pc' = "crashed"
          /\ edges_start' = m
          /\ edges_stop' = m
          /\ guards' = sanitizer_cov_reset_edgeguards(guards, m, m)
          /\ UNCHANGED <<shmem, num_edges, edges, overflowed>>
     ELSE /\ edges_start' = m
          /\ edges_stop' = m
          /\ shmem' = IF env_SHM_ID THEN "shm" ELSE "heap"
          /\ edges' = IF env_SHM_ID THEN edges ELSE GarbageEdges(garbage)
          /\ guards' = sanitizer_cov_reset_edgeguards(guards, m, m)
          /\ num_edges' = EdgeCount(m)
          /\ UNCHANGED <<pc, overflowed>>

\* mutant of sanitizer_cov_trace_pc_guard: index 0 is recorded like any other
sanitizer_cov_trace_pc_guard_nocheck(m, i, fault) ==
  /\ ~Terminated
  /\ LET index == guards[m][i] IN
     IF shmem = NoRegion
     THEN pc' = "crashed" /\ UNCHANGED covVars
     ELSE IF index \div BitsPerByte \in EdgeOffsets
     THEN /\ edges' = [edges EXCEPT ![index \div BitsPerByte] = OrBit(@, index % BitsPerByte)]
          /\ guards' = [guards EXCEPT ![m][i] = 0]
          /\ UNCHANGED <<pc, edges_start, edges_stop, shmem, num_edges, overflowed>>
     ELSE IF fault
     THEN pc' = "crashed" /\ UNCHANGED covVars
     ELSE /\ overflowed' = TRUE
          /\ guards' = [guards EXCEPT ![m][i] = 0]
          /\ UNCHANGED <<pc, edges_start, edges_stop, shmem, num_edges, edges>>

\* __sanitizer_cov_trace_pc_guard(guard) for guard i of module m.
\* A store past the region is undefined: it faults (fault) or lands in the
\* memory behind the region.
sanitizer_cov_trace_pc_guard(m, i, fault) ==
  /\ ~Terminated
  /\ LET index == guards[m][i] IN
     IF index = 0
     THEN UNCHANGED <<pc, covVars>>
     ELSE IF shmem = NoRegion
     THEN pc' = "crashed" /\ UNCHANGED covVars
     ELSE IF index \div BitsPerByte \in EdgeOffsets
     THEN /\ edges' = [edges EXCEPT ![index \div BitsPerByte] = OrBit(@, index % BitsPerByte)]
          /\ guards' = [guards EXCEPT ![m][i] = 0]
          /\ UNCHANGED <<pc, edges_start, edges_stop, shmem, num_edges, overflowed>>
     ELSE IF fault
     THEN pc' = "crashed" /\ UNCHANGED covVars
     ELSE /\ overflowed' = TRUE
          /\ guards' = [guards EXCEPT ![m][i] = 0]
          /\ UNCHANGED <<pc, edges_start, edges_stop, shmem, num_edges, edges>>

\* ------------------------------------------------------------- transport
HELO == <<"H", "E", "L", "O">>
\* what the supervisor may answer to the greeting
Replies == {HELO, <<"H", "E", "L", "P">>, <<"O", "L", "E", "H">>}
\* the payload alphabet: the NUL byte and one other byte
Bytes == {0, 1}
LUA_OK == 0
LUA_ERRRUN == 2
LUA_ERRSYNTAX == 3
LUA_ERRMEM == 4
LUA_ERRERR == 5
LUA_MULTRET == -1
\* what luaL_loadbuffer and lua_pcall can return
LoadStatus == {LUA_OK, LUA_ERRSYNTAX, LUA_ERRMEM}
CallStatus == {LUA_OK, LUA_ERRRUN, LUA_ERRMEM, LUA_ERRERR}

\* the return values of read(fd, buf, n) and write(fd, buf, n)
IoRet(n) == -1..n

SeqsOfLen(S, n) == [1..n -> S]

\* buf after a read that stored the first rv bytes of data at offset off
StoreAt(buf, off, data, rv) ==
  [k \in 1..Len(buf) |-> IF k > off /\ k <= off + rv THEN data[k - off] ELSE buf[k]]

Step(name) == trail' = Append(trail, name)

\* main: lua.c:965-969
Main(has_r) ==
  /\ pc = "start"
  /\ pc' = IF has_r THEN "helo_write" ELSE "cli"
  /\ UNCHANGED <<envVars, covVars, loopVars>>

\* do_Fuzzing, lua.c:753: write(REPRL_CWFD, helo, 4) != 4
HeloWrite(w) ==
  /\ pc = "helo_write"
  /\ io' = [io EXCEPT !.heloW = Append(@, w)]
  /\ pc' = IF w # 4 THEN "returned" ELSE "helo_read"
  /\ UNCHANGED <<envVars, covVars, helo, action, script_size, script_src, capacity, ptr,
                 remaining, payload, L, liveStates, liveBufs, stackTop, result,
                 status, iter, trail, out>>

\* mutant of HeloRead: the bytes read are not compared with the greeting
HeloRead_nomemcmp(r, data) ==
  /\ pc = "helo_read"
  /\ helo' = StoreAt(helo, 0, data, r)
  /\ io' = [io EXCEPT !.heloR = Append(@, r)]
  /\ pc' = IF r # 4 THEN "returned" ELSE "read_action"
  /\ UNCHANGED <<envVars, covVars, action, script_size, script_src, capacity, ptr,
                 remaining, payload, L, liveStates, liveBufs, stackTop, result,
                 status, iter, trail, out>>

\* do_Fuzzing, lua.c:753-761: read(REPRL_CRFD, helo, 4) != 4, then memcmp
HeloRead(r, data) ==
  /\ pc = "helo_read"
  /\ helo' = StoreAt(helo, 0, data, r)
  /\ io' = [io EXCEPT !.heloR = Append(@, r)]
  /\ pc' = IF r # 4 THEN "returned"
           ELSE IF helo' # HELO THEN "exited"
           ELSE "read_action"
  /\ UNCHANGED <<envVars, covVars, action, script_size, script_src, capacity, ptr,
                 remaining, payload, L, liveStates, liveBufs, stackTop, result,
                 status, iter, trail, out>>

\* do_Fuzzing, lua.c:765-776: the locals of a new iteration, the action tag
ReadAction(r, tag) ==
  /\ pc = "read_action"
  /\ iter < MaxIter
  /\ iter' = iter + 1
  /\ trail' = <<>>
  /\ result' = 0
  /\ status' = 0
  /\ script_size' = 0
  /\ script_src' = NoBuffer
  /\ capacity' = 0
  /\ ptr' = 0
  /\ remaining' = 0
  /\ out' = [diag |-> 0, printed |-> 0, returned |-> 0]
  /\ io' = [io EXCEPT !.nTag = @ + 1, !.reads = <<>>, !.reqs = <<>>,
                    !.sent = <<>>, !.word = <<>>]
  /\ IF r # 4
     THEN pc' = "exited" /\ action' = "unset"
     ELSE /\ action' = tag
          /\ pc' = IF tag = "cexe" THEN "read_size" ELSE "exited"
  /\ UNCHANGED <<envVars, covVars, helo, payload, L, liveStates, liveBufs, stackTop>>

\* do_Fuzzing, lua.c:772: the 8-byte length; data is what the supervisor
\* will send on the data descriptor
ReadSize(r, len, data) ==
  /\ pc = "read_size"
  /\ IF r # 8
     THEN pc' = "exited" /\ UNCHANGED <<script_size, payload, io>>
     ELSE /\ script_size' = len
          /\ payload' = data
          /\ io' = [io EXCEPT !.sent = data]
          /\ pc' = "alloc"
  /\ UNCHANGED <<envVars, covVars, helo, action, script_src, capacity, ptr, remaining,
                 L, liveStates, liveBufs, stackTop, result, status, iter,
                 trail, out>>

\* the argument of malloc at lua.c:778: script_size + 1 in size_t arithmetic
AllocSize(n) == (n + 1) % (SIZE_MAX + 1)

\* do_Fuzzing, lua.c:778-781: malloc(script_size + 1), memset, ptr, remaining.
\* script_src models the memory from the address malloc returned up to
\* offset script_size; capacity says how much of it belongs to the buffer.
\* memset through a null pointer faults when its length is not 0.
Alloc(mallocOk) ==
  /\ pc = "alloc"
  /\ \/ /\ ~mallocOk
        /\ pc' = "crashed"
        /\ script_src' = NoBuffer
        /\ UNCHANGED <<capacity, ptr, remaining, liveBufs>>
     \/ /\ mallocOk \/ AllocSize(script_size) = 0
        /\ script_src' = [k \in 1..(script_size + 1) |-> 0]
        /\ capacity' = AllocSize(script_size)
        /\ ptr' = 0
        /\ remaining' = script_size
        /\ liveBufs' = IF mallocOk THEN liveBufs + 1 ELSE liveBufs
        /\ pc' = "recv"
  /\ UNCHANGED <<envVars, covVars, helo, action, script_size, payload, L,
                 liveStates, stackTop, result, status, iter, trail, io, out>>

\* mutant of RecvRead: ptr is not advanced
RecvRead_ptrstuck(rv) ==
  /\ pc = "recv"
  /\ remaining > 0
  /\ io' = [io EXCEPT !.reads = Append(@, rv), !.reqs = Append(@, remaining)]
  /\ IF rv <= 0
     THEN pc' = "exited" /\ UNCHANGED <<script_src, ptr, remaining, payload>>
     ELSE \/ /\ script_src' = StoreAt(script_src, ptr, payload, rv)
             /\ payload' = SubSeq(payload, rv + 1, Len(payload))
             /\ remaining' = remaining - rv
             /\ ptr' = ptr
             /\ pc' = "recv"
          \/ /\ ptr + rv > capacity
             /\ pc' = "crashed"
             /\ UNCHANGED <<script_src, ptr, remaining, payload>>
  /\ UNCHANGED <<envVars, covVars, helo, action, script_size, capacity, L,
                 liveStates, liveBufs, stackTop, result, status, iter, trail, out>>

\* mutant of RecvRead: a read that returns zero or less is tried again
RecvRead_retry(rv) ==
  /\ pc = "recv"
  /\ remaining > 0
  /\ io' = [io EXCEPT !.reads = Append(@, rv), !.reqs = Append(@, remaining)]
  /\ IF rv <= 0
     THEN pc' = "recv" /\ UNCHANGED <<script_src, ptr, remaining, payload>>
     ELSE \/ /\ script_src' = StoreAt(script_src, ptr, payload, rv)
             /\ payload' = SubSeq(payload, rv + 1, Len(payload))
             /\ remaining' = remaining - rv
             /\ ptr' = ptr + rv
             /\ pc' = "recv"
          \/ /\ ptr + rv > capacity
             /\ pc' = "crashed"
             /\ UNCHANGED <<script_src, ptr, remaining, payload>>
  /\ UNCHANGED <<envVars, covVars, helo, action, script_size, capacity, L,
                 liveStates, liveBufs, stackTop, result, status, iter, trail, out>>

\* do_Fuzzing, lua.c:782-790: one pass of the receive loop. A read that
\* stores past the end of the buffer is undefined: it faults, or the bytes
\* land in the memory behind the buffer.
RecvRead(rv) ==
  /\ pc = "recv"
  /\ remaining > 0
  /\ io' = [io EXCEPT !.reads = Append(@, rv), !.reqs = Append(@, remaining)]
  /\ IF rv <= 0
     THEN pc' = "exited" /\ UNCHANGED <<script_src, ptr, remaining, payload>>
     ELSE \/ /\ script_src' = StoreAt(script_src, ptr, payload, rv)
             /\ payload' = SubSeq(payload, rv + 1, Len(payload))
             /\ remaining' = remaining - rv
             /\ ptr' = ptr + rv
             /\ pc' = "recv"
          \/ /\ ptr + rv > capacity
             /\ pc' = "crashed"
             /\ UNCHANGED <<script_src, ptr, remaining, payload>>
  /\ UNCHANGED <<envVars, covVars, helo, action, script_size, capacity, L,
                 liveStates, liveBufs, stackTop, result, status, iter, trail, out>>

\* do_Fuzzing, lua.c:782 and 791: the loop ends, the terminator is stored
\* (a store past the end of the buffer faults or lands behind it)
RecvDone ==
  /\ pc = "recv"
  /\ remaining = 0
  /\ \/ /\ script_src' = [script_src EXCEPT ![script_size + 1] = 0]
        /\ io' = [io EXCEPT !.nRecv = @ + 1]
        /\ Step("recv")
        /\ pc' = "newstate"
     \/ /\ script_size >= capacity
        /\ pc' = "crashed"
        /\ UNCHANGED <<script_src, io, trail>>
  /\ UNCHANGED <<envVars, covVars, helo, action, script_size, capacity, ptr,
                 remaining, payload, L, liveStates, liveBufs, stackTop, result,
                 status, iter, out>>

\* -------------------------------------------------------- execution cell
cellFrame == <<envVars, covVars, helo, action, script_size, script_src, capacity, ptr,
               remaining, payload, liveBufs, iter, io>>

\* do_Fuzzing, lua.c:793-798: luaL_newstate
NewState(ok) ==
  /\ pc = "newstate"
  /\ IF ok
     THEN /\ L' = iter
          /\ liveStates' = liveStates + 1
          /\ stackTop' = 0
          /\ Step("newstate")
          /\ pc' = "register"
          /\ UNCHANGED out
     ELSE \* l_message(argv[0], "cannot create state"), return EXIT_FAILURE
          /\ out' = [out EXCEPT !.diag = @ + 1]
          /\ pc' = "returned"
          /\ UNCHANGED <<L, liveStates, stackTop, trail>>
  /\ UNCHANGED <<cellFrame, result, status>>

\* do_Fuzzing, lua.c:799-802: the configuration calls, one step each
Configure(at, name, next) ==
  /\ pc = at
  /\ Step(name)
  /\ pc' = next
  /\ UNCHANGED <<cellFrame, L, liveStates, stackTop, result, status, out>>

\* mutant of Register: the native callable is not registered, the libraries
\* are opened at once
Register_skipped == Configure("register", "openlibs", "argtable")

Register == Configure("register", "register", "openlibs")
OpenLibs == Configure("openlibs", "openlibs", "argtable")
CreateArgTable == Configure("argtable", "argtable", "gc")
GcGen == Configure("gc", "gc", "luainit")

\* report, lua.c:224-233, on a stack of top values: <<messages emitted, top>>
report(st, top) == IF st # LUA_OK THEN <<1, top - 1>> ELSE <<0, top>>

\* docall, lua.c:258-270, with narg = 0 on a stack whose top value is the
\* function: lua_pcall replaces the function by the results of the call,
\* adjusted to nres values (all nret of them for LUA_MULTRET), or by the
\* error message. <<status, top>>
docall(callst, top, nret, nres) ==
  IF callst = LUA_OK
  THEN <<LUA_OK, (top - 1) + (IF nres = LUA_MULTRET THEN nret ELSE nres)>>
  ELSE <<callst, (top - 1) + 1>>

\* dochunk, lua.c:301-306, after a load that pushed the chunk or its error
\* message on a stack of top values: docall(L, 0, 0), then report.
\* <<status, messages emitted, top>> for a chunk that returns nret values
dochunk(loadst, callst, top, nret) ==
  LET c == IF loadst = LUA_OK THEN docall(callst, top + 1, nret, 0)
           ELSE <<loadst, top + 1>>
      r == report(c[1], c[2])
  IN <<c[1], r[1], r[2]>>

\* mutant of LuaInit: the status of handle_luainit is ignored
LuaInit_ignored(loadst, callst, nret) ==
  /\ pc = "luainit"
  /\ LET r == IF env_LUA_INIT THEN dochunk(loadst, callst, stackTop, nret)
              ELSE <<LUA_OK, 0, stackTop>>
     IN /\ out' = [out EXCEPT !.diag = @ + r[2]]
        /\ stackTop' = r[3]
        /\ pc' = "dostring" /\ Step("luainit")
  /\ UNCHANGED <<cellFrame, L, liveStates, result, status>>

\* do_Fuzzing, lua.c:804-805 with handle_luainit, lua.c:478-493
LuaInit(loadst, callst, nret) ==
  /\ pc = "luainit"
  /\ LET r == IF env_LUA_INIT THEN dochunk(loadst, callst, stackTop, nret)
              ELSE <<LUA_OK, 0, stackTop>>
     IN /\ out' = [out EXCEPT !.diag = @ + r[2]]
        /\ stackTop' = r[3]
        /\ IF r[1] # LUA_OK
           THEN pc' = "returned" /\ UNCHANGED trail
           ELSE pc' = "dostring" /\ Step("luainit")
  /\ UNCHANGED <<cellFrame, L, liveStates, result, status>>

\* do_Fuzzing, lua.c:807: result = dostring(L, script_src, "chunk").
\* crash: the payload brings the process down (test_crash, lua.c:742-748);
\* nret: the number of values the payload chunk returns when it succeeds.
DoString(loadst, callst, crash, nret) ==
  /\ pc = "dostring"
  /\ IF crash
     THEN pc' = "crashed" /\ UNCHANGED <<result, out, stackTop, trail>>
     ELSE LET r == dochunk(loadst, callst, stackTop, nret) IN
          /\ result' = r[1]
          /\ out' = [out EXCEPT !.diag = @ + r[2],
                                !.returned = IF r[1] = LUA_OK THEN nret ELSE 0]
          /\ stackTop' = r[3]
          /\ Step("dostring")
          /\ pc' = IF r[1] = LUA_OK THEN "l_print" ELSE "report"
  /\ UNCHANGED <<cellFrame, L, liveStates, status>>

\* do_Fuzzing, lua.c:809 with l_print, lua.c:703-715
LPrint ==
  /\ pc = "l_print"
  /\ IF stackTop > 0
     THEN /\ out' = [out EXCEPT !.printed = @ + stackTop]
          /\ stackTop' = 0
     ELSE UNCHANGED <<out, stackTop>>
  /\ Step("l_print")
  /\ pc' = "close"
  /\ UNCHANGED <<cellFrame, L, liveStates, result, status>>

\* mutant of Report: the failure branch leaves the process
Report_fatal ==
  /\ pc = "report"
  /\ LET r == report(status, stackTop) IN
       /\ out' = [out EXCEPT !.diag = @ + r[1]]
       /\ stackTop' = r[2]
  /\ Step("report")
  /\ pc' = "exited"
  /\ UNCHANGED <<cellFrame, L, liveStates, result, status>>

\* mutant of Report: the failure branch reports the result of the payload
Report_result ==
  /\ pc = "report"
  /\ LET r == report(result, stackTop) IN
       /\ out' = [out EXCEPT !.diag = @ + r[1]]
       /\ stackTop' = r[2]
  /\ Step("report")
  /\ pc' = "close"
  /\ UNCHANGED <<cellFrame, L, liveStates, result, status>>

\* do_Fuzzing, lua.c:813: report(L, status), status being the local of 765
Report ==
  /\ pc = "report"
  /\ LET r == report(status, stackTop) IN
       /\ out' = [out EXCEPT !.diag = @ + r[1]]
       /\ stackTop' = r[2]
  /\ Step("report")
  /\ pc' = "close"
  /\ UNCHANGED <<cellFrame, L, liveStates, result, status>>

\* mutant of StatusWord: the shift is missing
StatusWord_noshift(res) == res % 256

\* the status word of lua.c:817
StatusWord(res) == (res % 256) * 256

\* mutant of Close: lua_close is missing
Close_leak ==
  /\ pc = "close"
  /\ status' = StatusWord(result)
  /\ Step("close")
  /\ pc' = "flush_out"
  /\ UNCHANGED <<cellFrame, L, liveStates, stackTop, result, out>>

\* mutant of Close: the streams are not flushed before the status is sent
Close_noflush ==
  /\ pc = "close"
  /\ L' = NULL
  /\ liveStates' = liveStates - 1
  /\ status' = StatusWord(result)
  /\ Step("close")
  /\ pc' = "write_status"
  /\ UNCHANGED <<cellFrame, stackTop, result, out>>

\* do_Fuzzing, lua.c:816-817: lua_close(L); status = (result & 0xff) << 8
Close ==
  /\ pc = "close"
  /\ L' = NULL
  /\ liveStates' = liveStates - 1
  /\ status' = StatusWord(result)
  /\ Step("close")
  /\ pc' = "flush_out"
  /\ UNCHANGED <<cellFrame, stackTop, result, out>>

\* do_Fuzzing, lua.c:818-819
FlushOut == Configure("flush_out", "flush_out", "flush_err")
FlushErr == Configure("flush_err", "flush_err", "write_status")

\* mutant of WriteStatus: the result of the write is not checked
WriteStatus_unchecked(w) ==
  /\ pc = "write_status"
  /\ IF w # 4
     THEN UNCHANGED io
     ELSE io' = [io EXCEPT !.nStatus = @ + 1, !.word = <<status>>]
  /\ Step("status")
  /\ pc' = "reset"
  /\ UNCHANGED <<envVars, covVars, helo, action, script_size, script_src, capacity, ptr,
                 remaining, payload, L, liveStates, liveBufs, stackTop, result,
                 status, iter, out>>

\* do_Fuzzing, lua.c:820: CHECK(write(REPRL_CWFD, &status, 4) == 4)
WriteStatus(w) ==
  /\ pc = "write_status"
  /\ IF w # 4
     THEN pc' = "exited" /\ UNCHANGED <<io, trail>>
     ELSE /\ io' = [io EXCEPT !.nStatus = @ + 1, !.word = <<status>>]
          /\ Step("status")
          /\ pc' = "reset"
  /\ UNCHANGED <<envVars, covVars, helo, action, script_size, script_src, capacity, ptr,
                 remaining, payload, L, liveStates, liveBufs, stackTop, result,
                 status, iter, out>>

\* mutant of ResetGuards: the guards are left as the iteration left them
ResetGuards_skipped ==
  /\ pc = "reset"
  /\ io' = [io EXCEPT !.nReset = @ + 1]
  /\ Step("reset")
  /\ pc' = "read_action"
  /\ UNCHANGED <<envVars, covVars, helo, action, script_size, script_src, capacity, ptr,
                 remaining, payload, L, liveStates, liveBufs, stackTop, result,
                 status, iter, out>>

\* do_Fuzzing, lua.c:821-822: reset the guards, back to the top of the loop
ResetGuards ==
  /\ pc = "reset"
  /\ guards' = sanitizer_cov_reset_edgeguards(guards, edges_start, edges_stop)
  /\ io' = [io EXCEPT !.nReset = @ + 1]
  /\ Step("reset")
  /\ pc' = "read_action"
  /\ UNCHANGED <<envVars, edges_start, edges_stop, shmem, num_edges, edges,
                 overflowed, helo, action, script_size, script_src, capacity, ptr,
                 remaining, payload, L, liveStates, liveBufs, stackTop, result,
                 status, iter, out>>

\* ----------------------------------------------- instrumentation callbacks
\* the load-time hook of module m
CovInit(m, shmOk, mallocOk, garbage) ==
  /\ pc = "start"
  /\ sanitizer_cov_trace_pc_guard_init(m, shmOk, mallocOk, garbage)
  /\ UNCHANGED <<envVars, loopVars>>

\* an instrumented edge of module m runs
TracePcGuard(m, i, fault) ==
  /\ i \in 1..Len(guards[m])
  /\ sanitizer_cov_trace_pc_guard(m, i, fault)
  /\ UNCHANGED <<envVars, loopVars>>

\* ------------------------------------------------------------ specification
\* guard tables are zero-initialised data of the load image
GuardTables(n, others) ==
  {g \in [Modules -> {[k \in 1..j |-> 0] : j \in 0..n}] :
     \A m \in Modules : m > 1 => Len(g[m]) <= others}

InitWith(n, others, shmIds, luaInits) ==
  /\ pc = "start"
  /\ env_SHM_ID \in shmIds
  /\ env_LUA_INIT \in luaInits
  /\ guards \in GuardTables(n, others)
  /\ edges_start = NULL
  /\ edges_stop = NULL
  /\ shmem = NoRegion
  /\ num_edges = 0
  /\ edges = [o \in EdgeOffsets |-> 0]
  /\ overflowed = FALSE
  /\ helo = HELO
  /\ action = "unset"
  /\ script_size = 0
  /\ script_src = NoBuffer
  /\ capacity = 0
  /\ ptr = 0
  /\ remaining = 0
  /\ payload = <<>>
  /\ L = NULL
  /\ liveStates = 0
  /\ liveBufs = 0
  /\ stackTop = 0
  /\ result = 0
  /\ status = 0
  /\ iter = 0
  /\ trail = <<>>
  /\ io = [heloW |-> <<>>, heloR |-> <<>>, nTag |-> 0, nRecv |-> 0,
           nStatus |-> 0, nReset |-> 0, word |-> <<>>, reads |-> <<>>,
           reqs |-> <<>>,
           sent |-> <<>>]
  /\ out = [diag |-> 0, printed |-> 0, returned |-> 0]

Init == InitWith(MaxGuards, 0, BOOLEAN, BOOLEAN)

\* the outcomes of the environment that a call can depend on
ShmOutcomes == IF env_SHM_ID /\ edges_start = NULL THEN BOOLEAN ELSE {TRUE}
MallocOutcomes == IF ~env_SHM_ID /\ edges_start = NULL THEN BOOLEAN ELSE {TRUE}
GarbageOutcomes == IF ~env_SHM_ID /\ edges_start = NULL THEN GarbageSets ELSE {{}}
FaultOutcomes(m, i) ==
  IF guards[m][i] \div BitsPerByte \in EdgeOffsets THEN {FALSE} ELSE BOOLEAN

CovCallbacks ==
  \/ \E m \in Modules, shmOk \in ShmOutcomes, mallocOk \in MallocOutcomes,
        garbage \in GarbageOutcomes :
       CovInit(m, shmOk, mallocOk, garbage)
  \/ \E m \in Modules : \E i \in 1..Len(guards[m]) : \E fault \in FaultOutcomes(m, i) :
       TracePcGuard(m, i, fault)

\* the lengths the supervisor declares: the short ones, whose bytes it then
\* sends, and the largest value of size_t, of which it sends MaxLen bytes at
\* most
Lengths == (0..Min(MaxLen, SIZE_MAX)) \cup {SIZE_MAX}

\* the steps of main and do_Fuzzing
ProgramStep ==
  \/ \E has_r \in BOOLEAN : Main(has_r)
  \/ \E w \in IoRet(4) : HeloWrite(w)
  \/ \E r \in IoRet(4), data \in Replies : HeloRead(r, data)
  \/ \E r \in IoRet(4), tag \in {"cexe", "other"} : ReadAction(r, tag)
  \/ \E r \in IoRet(8), len \in Lengths :
       \E data \in SeqsOfLen(Bytes, Min(len, MaxLen)) : ReadSize(r, len, data)
  \/ \E mallocOk \in BOOLEAN : Alloc(mallocOk)
  \/ \E rv \in -1..MaxLen : rv <= remaining /\ rv <= Len(payload) /\ RecvRead(rv)
  \/ RecvDone
  \/ \E ok \in BOOLEAN : NewState(ok)
  \/ Register
  \/ OpenLibs
  \/ CreateArgTable
  \/ GcGen
  \/ \E loadst \in LoadStatus, callst \in CallStatus, nret \in 0..MaxRet :
       LuaInit(loadst, callst, nret)
  \/ \E loadst \in LoadStatus, callst \in CallStatus, crash \in BOOLEAN, nret \in 0..MaxRet :
       DoString(loadst, callst, crash, nret)
  \/ LPrint
  \/ Report
  \/ Close
  \/ FlushOut
  \/ FlushErr
  \/ \E w \in IoRet(4) : WriteStatus(w)
  \/ ResetGuards

Next ==
  \/ CovCallbacks
  \/ ProgramStep

\* The whole program. Its guard table is smaller than MAX_EDGES, as the one of
\* the lua binary is.
Spec == Init /\ [][Next]_vars

\* The program is sequential and its reads and writes block until the
\* supervisor answers: a step of main or do_Fuzzing that can be taken is
\* taken, whatever the instrumentation callbacks do meanwhile. Progress of
\* the loop does not depend on the coverage state: the fair specification
\* runs the same steps with a shared region and one guard at most.
InitLive == InitWith(1, 0, {TRUE}, BOOLEAN)

SpecLive == InitLive /\ [][Next]_vars /\ WF_vars(ProgramStep)

\* ------------------------------------------- the coverage bridge on its own
\* do_Fuzzing's call of the reset (lua.c:821), without the loop around it
ResetCall ==
  /\ ~Terminated
  /\ guards' = sanitizer_cov_reset_edgeguards(guards, edges_start, edges_stop)
  /\ UNCHANGED <<pc, envVars, edges_start, edges_stop, shmem, num_edges, edges,
                 overflowed, loopVars>>

InitCov == InitWith(MAX_EDGES + CovExtra, 1, BOOLEAN, {FALSE})

NextCov ==
  \/ CovCallbacks
  \/ ResetCall

SpecCov == InitCov /\ [][NextCov]_vars

\* ------------------------------------------------------------------ claims
RegisteredLen == IF edges_start = NULL THEN 0 ELSE Len(guards[edges_start])

\* bit k of the coverage region (FALSE outside the region)
RegionBit(e, k) ==
  /\ k \div BitsPerByte \in EdgeOffsets
  /\ BitOf(e[k \div BitsPerByte], k % BitsPerByte) = 1

RegionBits == 0..(MAX_EDGES - 1)

\* C6: __sanitizer_cov_reset_edgeguards is idempotent: on every guard table
\* the run reaches, resetting once and resetting twice give the same table,
\* whose guard number i (0-based) holds i + 1 for every i < min(n, MAX_EDGES).
C6_ResetIdempotent ==
  LET once == sanitizer_cov_reset_edgeguards(guards, edges_start, edges_stop)
      twice == sanitizer_cov_reset_edgeguards(once, edges_start, edges_stop)
  IN /\ twice = once
     /\ edges_start # NULL =>
          \A i \in 0..(Min(RegisteredLen, MAX_EDGES) - 1) : once[edges_start][i + 1] = i + 1

\* a table longer than MAX_EDGES that was reset again after an edge was hit
\* (the shared region starts empty, so a set bit is a hit)
C6_Witness ==
  /\ edges_start # NULL
  /\ RegisteredLen > MAX_EDGES
  /\ shmem = "shm"
  /\ \E o \in EdgeOffsets : edges[o] # 0
  /\ \A i \in 1..MAX_EDGES : guards[edges_start][i] = i

\* C7 (as claimed): a call on a guard with nonzero index k sets exactly bit k
\* of the coverage region and zeroes exactly that guard; a call on a zeroed
\* guard changes neither the region nor any guard.
C7_FirstHitSetsBitK ==
  [][\A m \in Modules : \A i \in 1..Len(guards[m]) : \A fault \in BOOLEAN :
       TracePcGuard(m, i, fault) =>
         IF guards[m][i] # 0
         THEN /\ RegionBit(edges', guards[m][i])
              /\ \A k \in RegionBits \ {guards[m][i]} : RegionBit(edges', k) = RegionBit(edges, k)
              /\ guards' = [guards EXCEPT ![m][i] = 0]
         ELSE edges' = edges /\ guards' = guards]_vars

\* ---------------------------------------------------- claims on the loop
\* the positions of an iteration after its script has been received
ExecPcs == {"newstate", "register", "openlibs", "argtable", "gc", "luainit",
            "dostring", "l_print", "report", "close", "flush_out", "flush_err",
            "write_status", "reset"}
RecvPcs == {"read_size", "alloc", "recv"}
LoopPcs == {"read_action"} \cup RecvPcs \cup ExecPcs

RECURSIVE SumSeq(_)
SumSeq(q) == IF q = <<>> THEN 0 ELSE Head(q) + SumSeq(Tail(q))

LowByte(w) == w % 256
SecondByte(w) == (w \div 256) % 256

\* C1 (as claimed): the low byte of the status word written is 0 when the
\* payload returned LUA_OK and nonzero when it returned a failure code.
C1_LowByteIsStatus ==
  io.word # <<>> => ((LowByte(io.word[1]) = 0) <=> (result = LUA_OK))

\* C1 (amended): the status word written is (result & 0xff) << 8: its second
\* byte (bits 8..15) is 0 for LUA_OK and the nonzero failure code otherwise,
\* and its low byte is 0 in both cases.
C1_SecondByteIsStatus ==
  io.word # <<>> =>
    /\ LowByte(io.word[1]) = 0
    /\ SecondByte(io.word[1]) = result
    /\ (SecondByte(io.word[1]) = 0) <=> (result = LUA_OK)
    /\ io.word[1] \div 65536 = 0

\* a status word written for a failed payload
C1_Witness == io.word # <<>> /\ result # LUA_OK /\ pc = "reset"

\* C2: a failure the payload returns is recoverable: after it the process
\* is terminated by nothing but a failed status write, and the iteration
\* that comes back to the action-tag read has closed the state, written one
\* status word and reset the guards.
C2_PayloadFailureRecoverable ==
  /\ [][(result # LUA_OK /\ pc \in {"dostring", "report", "close", "flush_out",
                                   "flush_err", "reset"})
         => ~Terminated']_vars
  /\ [][(pc = "dostring" /\ pc' # "crashed" /\ pc' # pc /\ result' # LUA_OK)
         => pc' = "report"]_vars
  /\ [](result # LUA_OK =>
          /\ pc \in {"report", "close", "flush_out", "flush_err", "write_status",
                     "reset", "read_action", "exited"}
          /\ pc = "exited" => (io.word = <<>> /\ trail[Len(trail)] = "flush_err")
          /\ pc = "read_action" =>
               /\ SubSeq(trail, Len(trail) - 5, Len(trail)) =
                    <<"report", "close", "flush_out", "flush_err", "status", "reset">>
               /\ liveStates = 0
               /\ io.nStatus = io.nRecv
               /\ Len(io.word) = 1)

\* the loop is back at the action-tag read after a failed payload
C2_Witness == pc = "read_action" /\ result # LUA_OK /\ iter = 1

\* the greeting write failed, or the write and the read have both been made
HandshakeOver == io.heloW # <<>> /\ (io.heloW # <<4>> \/ io.heloR # <<>>)
HandshakeGood == io.heloW = <<4>> /\ io.heloR = <<4>> /\ helo = HELO
ReachedLoop == pc = "read_action" \/ io.nTag > 0

\* C3: the loop reaches its first action-tag read iff the greeting write
\* returned 4, the read returned 4 and the bytes read are the greeting;
\* otherwise the process terminates with no tag read and no script run.
C3_HandshakeIff ==
  /\ HandshakeOver => (ReachedLoop <=> HandshakeGood)
  /\ (HandshakeOver /\ ~HandshakeGood) =>
        /\ pc \in {"returned", "exited"}
        /\ io.nTag = 0 /\ io.nRecv = 0 /\ iter = 0 /\ liveStates = 0
  /\ ~HandshakeOver => (~ReachedLoop /\ iter = 0 /\ liveStates = 0)
  /\ Len(io.heloW) <= 1 /\ Len(io.heloR) <= 1

\* the greeting was answered with four other bytes
C3_Witness == pc = "exited" /\ io.heloR = <<4>> /\ helo # HELO

\* C4: the receive loop hands over to the execution only when the sizes of
\* its reads sum to L; every read asks for exactly what is still missing;
\* the chunks lie one after the other in the buffer; the byte at offset L is 0.
C4_ReceiveExact ==
  /\ pc \in {"recv"} \cup ExecPcs =>
       /\ Len(script_src) = script_size + 1
       /\ ptr = SumSeq(io.reads)
       /\ remaining = script_size - ptr
       /\ \A j \in 1..Len(io.reads) :
            /\ io.reads[j] > 0
            /\ io.reqs[j] = script_size - SumSeq(SubSeq(io.reads, 1, j - 1))
       /\ SubSeq(script_src, 1, ptr) = SubSeq(io.sent, 1, ptr)
  /\ pc \in ExecPcs =>
       /\ SumSeq(io.reads) = script_size
       /\ SubSeq(script_src, 1, script_size) = io.sent
       /\ script_src[script_size + 1] = 0

\* a script of two different bytes received in two reads
C4_Witness ==
  /\ pc = "newstate"
  /\ Len(io.reads) = 2
  /\ io.sent[1] # io.sent[2]

\* C5: at most one interpreter state is live; none is live at the
\* action-tag read nor once the state has been closed for the status write;
\* the payload runs in the state its own iteration created.
C5_OneStatePerIteration ==
  /\ liveStates <= 1
  /\ pc = "read_action" => (liveStates = 0 /\ L = NULL)
  /\ pc \in {"flush_out", "flush_err", "write_status", "reset"} => liveStates = 0
  /\ io.word # <<>> => liveStates = 0
  /\ pc \in {"register", "openlibs", "argtable", "gc", "luainit", "dostring",
             "l_print", "report", "close"} => (liveStates = 1 /\ L = iter)

\* the payload of the second iteration is about to run
C5_Witness == pc = "dostring" /\ iter = 2 /\ L = 2

\* C8: requests and responses alternate: a status word is written for a
\* received script only, one for each; the greeting is written once and
\* before any action tag is read; the loop is left by a fatal path only; and
\* a received script is followed by its status word and the next action-tag
\* read unless the process terminates.
C8_Alternation ==
  /\ [](/\ io.nStatus <= io.nRecv /\ io.nRecv <= io.nStatus + 1
        /\ pc \in (ExecPcs \ {"reset"}) => io.nRecv = io.nStatus + 1
        /\ pc \in {"reset", "read_action"} \cup RecvPcs => io.nRecv = io.nStatus
        /\ pc = "read_action" => (io.nStatus = iter /\ io.nTag = iter)
        /\ pc \in LoopPcs \ {"read_action"} => (io.nTag = iter /\ io.nRecv \in {iter - 1, iter})
        /\ Len(io.heloW) <= 1
        /\ (io.nTag > 0 \/ pc \in LoopPcs) => io.heloW = <<4>>)
  /\ [][(pc \in LoopPcs) => (pc' \in (LoopPcs \cup {"returned", "exited", "crashed"}))]_vars
  /\ \A k \in 1..MaxIter :
       (io.nRecv = k /\ io.nStatus = k - 1)
          ~> ((io.nStatus = k /\ pc = "read_action") \/ Terminated)

\* two scripts received and answered, the loop is at the next tag read
C8_Witness == pc = "read_action" /\ io.nRecv = 2 /\ io.nStatus = 2 /\ io.nTag = 2

Last(q, n) == SubSeq(q, Len(q) - n + 1, Len(q))
Count(q, e) == Cardinality({j \in 1..Len(q) : q[j] = e})
Teardown == <<"close", "flush_out", "flush_err", "status", "reset">>

\* C9: whatever the payload returned, the iteration closes the state, then
\* flushes stdout and stderr, then writes the status word, then resets the
\* guards; the reset happens once per iteration and before the next script
\* is executed.
C9_TeardownOrder ==
  /\ \A n \in 1..5 :
       (trail # <<>> /\ trail[Len(trail)] = Teardown[n]) =>
          /\ Len(trail) > n
          /\ Last(trail, n) = SubSeq(Teardown, 1, n)
          /\ trail[Len(trail) - n] \in {"l_print", "report"}
  /\ \A n \in 1..5 : Count(trail, Teardown[n]) <= 1
  /\ pc = "flush_out" => Last(trail, 1) = SubSeq(Teardown, 1, 1)
  /\ pc = "flush_err" => Last(trail, 2) = SubSeq(Teardown, 1, 2)
  /\ pc = "write_status" => Last(trail, 3) = SubSeq(Teardown, 1, 3)
  /\ pc = "reset" => Last(trail, 4) = SubSeq(Teardown, 1, 4)
  /\ (pc = "read_action" /\ iter > 0) => (Last(trail, 5) = Teardown /\ io.nReset = iter)
  /\ pc \in RecvPcs \cup ExecPcs => io.nReset = iter - 1

\* an iteration with a failed payload has gone through its teardown
C9_Witness == pc = "read_action" /\ iter = 2 /\ result # LUA_OK /\ io.nReset = 2

GuardsSequential(g) ==
  \A i \in 1..Min(RegisteredLen, MAX_EDGES) : g[edges_start][i] = i

\* C10 (as claimed): when the execution of a payload begins every bit of the
\* coverage bitmap is 0 and the guards hold their sequential indices.
C10_CleanAtExecution ==
  pc = "dostring" => ((\A k \in RegionBits : ~RegionBit(edges, k)) /\ GuardsSequential(guards))

\* C10 (amended): the loop resets the guards, and only the guards, at the end
\* of every iteration: the reset leaves them with their sequential indices;
\* no step of the harness clears a bit of the bitmap; a bit is set by nothing
\* but a hit of the armed guard that holds its index.
C10_GuardsResetBitsKept ==
  /\ [][(pc = "reset" /\ pc' = "read_action") => GuardsSequential(guards')]_vars
  /\ [][(shmem # NoRegion /\ edges' # edges) =>
          \A k \in RegionBits :
            /\ RegionBit(edges, k) => RegionBit(edges', k)
            /\ (~RegionBit(edges, k) /\ RegionBit(edges', k)) =>
                  /\ k \in 1..RegisteredLen
                  /\ guards[edges_start][k] = k
                  /\ guards'[edges_start][k] = 0]_vars

\* the payload of the second iteration begins with bits of the shared region
\* set although the guards were reset
C10_Witness ==
  /\ pc = "dostring" /\ iter = 2 /\ shmem = "shm"
  /\ \E k \in RegionBits : RegionBit(edges, k)
  /\ RegisteredLen > 0 /\ GuardsSequential(guards)

\* ------------------------------------------------- claims C11 to C20
\* C11: every transport violation inside the loop is fatal: an action-tag
\* read that does not return 4, a tag other than 'cexe', a length read that
\* does not return 8, a payload read that returns zero or less, a status
\* write that does not return 4 each end the process at once (_exit); the
\* process that has ended takes no further step, so no state is created or
\* run and nothing more is read or written; no interpreter state is live
\* when the loop is left this way.
C11_TransportViolationFatal ==
  /\ [][pc = "read_action" =>
          \A r \in IoRet(4), tag \in {"cexe", "other"} :
            (ReadAction(r, tag) /\ (r # 4 \/ tag # "cexe")) => pc' = "exited"]_vars
  /\ [][pc = "read_size" =>
          \A r \in IoRet(8) \ {8}, len \in 0..MaxLen : \A data \in SeqsOfLen(Bytes, len) :
            ReadSize(r, len, data) => pc' = "exited"]_vars
  /\ [][pc = "recv" =>
          \A rv \in -1..0 : RecvRead(rv) => pc' = "exited"]_vars
  /\ [][pc = "write_status" =>
          \A w \in IoRet(4) \ {4} : WriteStatus(w) => pc' = "exited"]_vars
  /\ [][pc # "exited"]_vars
  /\ []((pc = "exited" /\ io.nTag > 0) =>
          /\ liveStates = 0 /\ L = NULL
          /\ io.nStatus = iter - 1
          /\ io.nRecv = iter => (io.word = <<>> /\ trail # <<>> /\ trail[Len(trail)] = "flush_err"))

\* the supervisor closed the data channel in the middle of a script
C11_Witness ==
  /\ pc = "exited" /\ io.reads = <<1, 0>> /\ liveStates = 0 /\ io.nRecv = iter - 1

\* C12 (as claimed): the payload buffer is freed after the execution: at the
\* action-tag read no buffer of an earlier iteration is still allocated.
C12_BufferFreed ==
  pc = "read_action" => liveBufs = 0

\* C13 (as claimed): with no SHM_ID in the environment the call of
\* __sanitizer_cov_trace_pc_guard_init that registers a guard range does not
\* terminate the process: it binds the region to a heap buffer, resets the
\* guards and writes the header.
C13_HeapFallback ==
  [][(~env_SHM_ID /\ edges_start = NULL /\ edges_start' # NULL) =>
       /\ ~Terminated'
       /\ shmem' = "heap"
       /\ num_edges' = Len(guards[edges_start'])
       /\ \A i \in 1..Min(Len(guards[edges_start']), MAX_EDGES) :
            guards'[edges_start'][i] = i]_vars

\* the initialization script of the current iteration has failed
LuaInitFailed ==
  pc = "returned" /\ iter > 0 /\ trail # <<>> /\ trail[Len(trail)] = "gc"

\* C14: a failure of the initialization script is fatal in every iteration:
\* whenever handle_luainit returns a status other than LUA_OK the process
\* terminates (do_Fuzzing returns and main returns its value), it takes no
\* further step, the payload of that iteration has not been executed and no
\* status word has been written for it.
C14_LuaInitFailureFatal ==
  /\ [][\A loadst \in LoadStatus, callst \in CallStatus, nret \in 0..MaxRet :
          (pc = "luainit" /\ env_LUA_INIT
             /\ dochunk(loadst, callst, stackTop, nret)[1] # LUA_OK
             /\ LuaInit(loadst, callst, nret))
            => (pc' = "returned" /\ trail' = trail /\ io' = io /\ result' = result)]_vars
  /\ [][pc # "returned"]_vars
  /\ [][(pc = "luainit" /\ pc' = "dostring") => out'.diag = out.diag]_vars
  /\ [](LuaInitFailed =>
          /\ env_LUA_INIT
          /\ Count(trail, "dostring") = 0
          /\ io.word = <<>>
          /\ io.nStatus = iter - 1
          /\ io.nRecv = iter)

\* the initialization script fails in the second iteration
C14_Witness ==
  LuaInitFailed /\ iter = 2 /\ io.nStatus = 1 /\ out.diag = 1

\* C15 (as claimed): once a guard range is initialized, every later call of
\* __sanitizer_cov_trace_pc_guard_init with that range, and every call with
\* an empty range, changes neither the recorded range, the region pointer,
\* the header nor any guard, and does not terminate the process.
C15_ReentryNoOp ==
  [][\A m \in Modules :
       (edges_start = m \/ Len(guards[m]) = 0) =>
         \A shmOk \in BOOLEAN, mallocOk \in BOOLEAN, garbage \in GarbageSets :
           CovInit(m, shmOk, mallocOk, garbage) => UNCHANGED <<pc, covVars>>]_vars

\* C16: after one guard range has been initialized, a call of
\* __sanitizer_cov_trace_pc_guard_init with a second, non-empty range
\* terminates the process (_exit) and changes nothing of the coverage state;
\* the recorded range, the region pointer and the header are never bound a
\* second time; the guards of a range that is not the recorded one are all 0,
\* so such a call is never taken for a duplicate.
C16_SecondRangeFatal ==
  /\ [][\A m \in Modules :
          (edges_start # NULL /\ edges_start # m /\ Len(guards[m]) > 0) =>
            \A shmOk \in BOOLEAN, mallocOk \in BOOLEAN, garbage \in GarbageSets :
              CovInit(m, shmOk, mallocOk, garbage) => (pc' = "exited" /\ UNCHANGED covVars)]_vars
  /\ [][edges_start # NULL => UNCHANGED <<edges_start, edges_stop, shmem, num_edges>>]_vars
  /\ [](\A m \in Modules : m # edges_start => \A i \in 1..Len(guards[m]) : guards[m][i] = 0)

\* the process was ended by the call for a second range: the first guard of
\* the recorded range is armed, so a call for that range would have returned
C16_Witness ==
  /\ pc = "exited" /\ shmem # NoRegion
  /\ edges_start # NULL /\ guards[edges_start][1] # 0
  /\ \E m \in Modules : m # edges_start /\ Len(guards[m]) > 0

\* C17: edge index 0 is never a valid edge: every guard the reset assigns
\* holds an index of at least 1, a call of trace_pc_guard on a guard that
\* holds 0 changes nothing, and no reset and no trace_pc_guard call sets bit 0
\* of the coverage bitmap (bit 0 of a shared region stays clear; in a heap
\* region it keeps whatever value malloc left there).
C17_IndexZeroReserved ==
  /\ [](edges_start # NULL =>
          \A i \in 1..Min(RegisteredLen, MAX_EDGES) :
            sanitizer_cov_reset_edgeguards(guards, edges_start, edges_stop)[edges_start][i] >= 1)
  /\ [][ResetCall => \A i \in 1..Min(RegisteredLen, MAX_EDGES) : guards'[edges_start][i] # 0]_vars
  /\ [][\A m \in Modules : \A i \in 1..Len(guards[m]) :
          guards[m][i] = 0 =>
            \A fault \in BOOLEAN : TracePcGuard(m, i, fault) => UNCHANGED <<pc, covVars>>]_vars
  /\ [][shmem # NoRegion => (RegionBit(edges', 0) = RegionBit(edges, 0))]_vars
  /\ [](shmem = "shm" => ~RegionBit(edges, 0))

\* an edge of the shared region has been recorded and its guard is zeroed:
\* further calls on that guard are calls with index 0
C17_Witness ==
  /\ shmem = "shm" /\ edges_start # NULL
  /\ RegionBit(edges, 1) /\ guards[edges_start][1] = 0
  /\ ~RegionBit(edges, 0)

\* C18: in a guard table of more than MAX_EDGES guards every guard at
\* position MAX_EDGES or beyond (counted from 0) holds 0 in every reachable
\* state: no reset assigns it; a trace_pc_guard call on such a guard changes
\* neither the coverage region nor any guard.
C18_GuardsBeyondMaxZero ==
  /\ [](\A m \in Modules : \A i \in 1..Len(guards[m]) :
          (i - 1 >= MAX_EDGES) => guards[m][i] = 0)
  /\ [](edges_start # NULL =>
          \A i \in 1..RegisteredLen :
            (i - 1 >= MAX_EDGES) =>
               sanitizer_cov_reset_edgeguards(guards, edges_start, edges_stop)[edges_start][i] = 0)
  /\ [][\A m \in Modules : \A i \in 1..Len(guards[m]) :
          (i - 1 >= MAX_EDGES) =>
            \A fault \in BOOLEAN : TracePcGuard(m, i, fault) => UNCHANGED <<pc, covVars>>]_vars

\* a registered table of more than MAX_EDGES guards after a reset: the guard
\* at position MAX_EDGES - 1 is the last one armed
C18_Witness ==
  /\ shmem # NoRegion /\ RegisteredLen > MAX_EDGES
  /\ guards[edges_start][MAX_EDGES] = MAX_EDGES
  /\ guards[edges_start][MAX_EDGES + 1] = 0
  /\ guards[edges_start][1] = 0

\* C19: after a successful initialization the header field num_edges is the
\* number of guards of the registered range (stop - start, whether or not it
\* exceeds MAX_EDGES), and no later step (reset, edge hit, step of a fuzz
\* iteration) changes it.
C19_NumEdgesKept ==
  /\ [](shmem # NoRegion => (edges_start # NULL /\ num_edges = Len(guards[edges_start])))
  /\ [][shmem # NoRegion => num_edges' = num_edges]_vars
  /\ [][(shmem = NoRegion /\ shmem' # NoRegion) => num_edges' = Len(guards[edges_start'])]_vars

\* two iterations done on a shared region with both edges recorded
C19_Witness ==
  /\ pc = "read_action" /\ iter = 2 /\ shmem = "shm"
  /\ num_edges = 2 /\ RegionBit(edges, 1) /\ RegionBit(edges, 2)
  /\ GuardsSequential(guards)

\* C20 (as claimed): when the payload succeeds, the values its chunk returned
\* are on the stack when l_print is called and are passed to print: the
\* number of values printed is the number of values returned.
C20_ResultsForwarded ==
  (result = LUA_OK /\ Count(trail, "l_print") = 1) => out.printed = out.returned

\* ------------------------------------------------- claims C21 to C25
\* the steps of an execution cell up to the payload, and the two ways on
CellSteps == <<"recv", "newstate", "register", "openlibs", "argtable", "gc",
               "luainit", "dostring">>
CellOk == CellSteps \o <<"l_print">> \o Teardown
CellFailed == CellSteps \o <<"report">> \o Teardown

IsPrefix(p, q) == Len(p) <= Len(q) /\ p = SubSeq(q, 1, Len(p))

\* C21: the steps of an iteration's execution cell run in one fixed order,
\* none skipped: create state, register the native callable, open the
\* libraries, build the arg table, select generational GC, run the
\* initialization script, execute the payload, destroy the state. The steps
\* taken so far are always a prefix of that order; each position of the cell
\* has exactly the steps before it behind it; the payload is entered from the
\* initialization script only; an iteration that comes back to the action-tag
\* read has run them all.
C21_CellOrder ==
  /\ [](IsPrefix(trail, CellOk) \/ IsPrefix(trail, CellFailed))
  /\ [](pc = "register" => trail = SubSeq(CellSteps, 1, 2))
  /\ [](pc = "openlibs" => trail = SubSeq(CellSteps, 1, 3))
  /\ [](pc = "argtable" => trail = SubSeq(CellSteps, 1, 4))
  /\ [](pc = "gc" => trail = SubSeq(CellSteps, 1, 5))
  /\ [](pc = "luainit" => trail = SubSeq(CellSteps, 1, 6))
  /\ [](pc = "dostring" => trail = SubSeq(CellSteps, 1, 7))
  /\ [](pc \in {"l_print", "report"} => trail = CellSteps)
  /\ [](pc = "close" => trail \in {CellSteps \o <<"l_print">>, CellSteps \o <<"report">>})
  /\ []((pc = "read_action" /\ iter > 0) => trail \in {CellOk, CellFailed})
  /\ [][(pc # "dostring" /\ pc' = "dostring") => pc = "luainit"]_vars

\* an iteration with a successful payload has run the whole cell
C21_Witness ==
  pc = "read_action" /\ iter = 1 /\ trail = CellOk /\ result = LUA_OK

\* C22 (as claimed): for every declared length the buffer the receive step
\* allocates has script_size + 1 bytes: its capacity is greater than
\* script_size, so the payload bytes and the terminator at offset script_size
\* lie inside it.
C22_BufferHoldsPayload ==
  pc \in {"recv"} \cup ExecPcs =>
    (capacity = script_size + 1 /\ capacity > script_size)

\* C23 (as claimed): every index the reset assigns to a guard has its byte
\* offset index / 8 inside the edges array (below SHM_SIZE - 4), and no
\* trace_pc_guard call has written outside the coverage region.
C23_WritesInsideRegion ==
  /\ \A m \in Modules : \A i \in 1..Len(guards[m]) :
       guards[m][i] # 0 => (guards[m][i] \div BitsPerByte) < SHM_SIZE - HeaderSize
  /\ ~overflowed

\* C24 (as claimed): whenever a guard is nonzero the coverage region has been
\* bound, so that no trace_pc_guard call goes through an unbound region
\* pointer; while no region is bound every trace_pc_guard call and every
\* reset leaves the coverage state and the process as they are.
C24_ArmedGuardImpliesRegion ==
  /\ [](\A m \in Modules : \A i \in 1..Len(guards[m]) :
          guards[m][i] # 0 => shmem # NoRegion)
  /\ [][\A m \in Modules : \A i \in 1..Len(guards[m]) : \A fault \in BOOLEAN :
          (shmem = NoRegion /\ TracePcGuard(m, i, fault)) => UNCHANGED <<pc, covVars>>]_vars
  /\ [][(edges_start = NULL /\ pc = "reset") => guards' = guards]_vars

\* the positions of an iteration after dostring has returned
AfterPayloadPcs == {"l_print", "report", "close", "flush_out", "flush_err",
                    "write_status", "reset"}

\* C25: a failed payload has its diagnostic emitted exactly once in its
\* iteration, by the report inside dostring; the report call of the failure
\* branch of do_Fuzzing is made with status 0: it emits nothing and leaves
\* the stack as it is; a successful payload has no diagnostic emitted.
C25_DiagnosticOnce ==
  /\ []((pc \in AfterPayloadPcs \/ (pc = "read_action" /\ iter > 0)) =>
          out.diag = (IF result # LUA_OK THEN 1 ELSE 0))
  /\ [][(pc = "dostring" /\ pc' \in {"l_print", "report"}) =>
          out'.diag = out.diag + (IF result' # LUA_OK THEN 1 ELSE 0)]_vars
  /\ [](pc = "report" => (status = LUA_OK /\ result # LUA_OK))
  /\ [][(pc = "report" /\ pc' = "close") => (out' = out /\ stackTop' = stackTop)]_vars
  /\ [](pc \in AfterPayloadPcs => stackTop = 0)

\* the failure branch has made its report call after a failed payload
C25_Witness ==
  /\ pc = "close" /\ result # LUA_OK /\ out.diag = 1
  /\ trail[Len(trail)] = "report"

====
